---- MODULE Spec2Model ----
(***************************************************************************)
(* Translation memoization and incremental fan-out engine of GlobSEO:      *)
(* processMetadataTranslations (backend/utils/lingo-translate.js) together *)
(* with the two cache-utils modules of the repository (the Redis-backed    *)
(* one with its in-process fallback, and the file-backed one).             *)
(***************************************************************************)
EXTENDS Integers, Sequences, FiniteSets, TLC

\* ---------------------------------------------------------------- bounds
MaxTargets == 2          \* longest targetLanguages list of a request
MaxRequests == 2         \* translate requests per behaviour
MaxTime == 4             \* last clock value
MaxApiCalls == 3         \* direct cache-utils calls per behaviour (SpecCache)
MaxSubsetList == 4       \* longest short list given to getLanguageSubsets (SpecSubsets)
LongList == 31           \* length of the long list given to getLanguageSubsets (SpecSubsets)
MaxAgeRequests == 4      \* translate requests per behaviour of SpecAge
MaxSeeds == 2            \* entries written ahead of the requests (SpecResolver)

\* ------------------------------------------------------------- constants
\* time-to-live, in clock ticks of this model
CACHE_EXPIRY_SECONDS == 2
\* req.setTimeout / res.setTimeout of the server, in ticks of the clock
REQUEST_TIMEOUT == 1
CACHE_KEY_PREFIX == "globseo:translation:"

Codes == {"en", "es", "fr"}
Bodies == {"c1"}
\* metadata.lang as scraped: absent ("") or a language code
MetaLangs == {""}
Metadatas == [lang : MetaLangs, body : Bodies]

\* String order of the language codes (Array.prototype.sort default order)
CodeRank == [en |-> 1, es |-> 2, fr |-> 4] @@ ("es,fr" :> 3) @@ ("constructor" :> 0)

TargetLists == UNION {[1..n -> Codes] : n \in 1..MaxTargets}

\* the languages array of the request body is not validated: a code may be the
\* name of a property of Object.prototype (SpecEntries)
EntryCodes == {"es", "constructor"}
EntryLists == UNION {[1..n -> EntryCodes] : n \in 1..MaxTargets}

\* the codes that name a file of the i18n directory
FileCodes == Codes \cup EntryCodes

\* arguments of getCacheKey called on its own: the request body and the scraped
\* lang attribute are not validated, so a code is any string
KeyCodes == Codes \cup {"es,fr"}
KeySources == {"en", "fr"}
KeyBodies == {"c1", "c2"}
KeyTargetLists == UNION {[1..n -> KeyCodes] : n \in 1..MaxTargets}

\* arguments of getMissingLanguages called on its own
MissCodes == {"es", "fr", "constructor"}
MissRequested == UNION {[1..n -> MissCodes] : n \in 1..MaxTargets}

\* arguments of getLanguageSubsets called on its own: lists of distinct codes,
\* short ones and one of LongList codes
SubsetCodes == {"de", "es", "fr", "it", "ja"}
LongCodes == [i \in 1..LongList |-> "l" \o ToString(i)]
SubsetLists ==
  {tl \in UNION {[1..n -> SubsetCodes] : n \in 1..MaxSubsetList} :
     \A i, j \in DOMAIN tl : i # j => tl[i] # tl[j]}
  \cup {LongCodes}

\* the callers of initializeRedis: the call made at module load and two cache
\* operations (SpecInit)
Operations == {"get", "set"}
Callers == {"load"} \cup Operations

\* ------------------------------------------------------- translation values
\* One language's TranslationContent: the content it was produced from, the
\* engine invocation that produced it (0: not produced by the engine) and the
\* _error marker ("" when absent).
Translated(body, inv) == [content |-> body, inv |-> inv, _error |-> ""]
ErrorMarker(body, msg) == [content |-> body, inv |-> 0, _error |-> msg]

NoTranslations == [l \in {} |-> Translated("c1", 0)]

\* ------------------------------------------------------------ pure helpers
RECURSIVE Insert(_, _)
Insert(x, s) ==
  IF s = <<>> THEN <<x>>
  ELSE IF CodeRank[x] <= CodeRank[Head(s)] THEN <<x>> \o s
       ELSE <<Head(s)>> \o Insert(x, Tail(s))

RECURSIVE SortLangs(_)
SortLangs(s) == IF s = <<>> THEN <<>> ELSE Insert(Head(s), SortLangs(Tail(s)))

RECURSIVE Join(_)
Join(s) ==
  IF s = <<>> THEN ""
  ELSE IF Len(s) = 1 THEN s[1]
       ELSE s[1] \o "," \o Join(Tail(s))

Range(s) == {s[i] : i \in DOMAIN s}

\* variant: the list is joined as the caller gave it
sortCopy_Unsorted(targetLangs) == [sorted |-> targetLangs, caller |-> targetLangs]

\* [...targetLangs].sort(): the sorted copy, and the caller's array after it
sortCopy(targetLangs) == [sorted |-> SortLangs(targetLangs), caller |-> targetLangs]

\* JSON.stringify(content): the body tag stands for the serialized content
Stringify(content) == content

\* md5 is taken as collision-free: the digest is identified with its input
getCacheKey(content, sourceLang, targetLangs) ==
  sourceLang \o ":" \o Join(sortCopy(targetLangs).sorted) \o ":" \o Stringify(content)

getRedisKey(cacheKey) == CACHE_KEY_PREFIX \o cacheKey

\* 1 << n on 32-bit integers
shl1(n) == IF n % 32 = 31 THEN (0 - 2 ^ 30) - 2 ^ 30 ELSE 2 ^ (n % 32)

\* i & (1 << j), for 0 <= i < 2^31
bitSet(i, j) == (j % 32) < 31 /\ (i \div 2 ^ (j % 32)) % 2 = 1

RECURSIVE SubsetFrom(_, _, _)
SubsetFrom(languages, i, j) ==
  IF j > Len(languages) THEN <<>>
  ELSE (IF bitSet(i, j - 1) THEN <<languages[j]>> ELSE <<>>)
       \o SubsetFrom(languages, i, j + 1)

\* variant: the loop stops one sub-list early
getLanguageSubsets_StopsEarly(languages) ==
  [i \in 1..(shl1(Len(languages)) - 3) |-> SubsetFrom(languages, i, 1)]

getLanguageSubsets(languages) ==
  IF shl1(Len(languages)) < 3 THEN <<>>
  ELSE [i \in 1..(shl1(Len(languages)) - 2) |-> SubsetFrom(languages, i, 1)]

\* property names every plain object inherits from Object.prototype
ObjectPrototypeKeys == {"constructor"}

\* a per-language value that is falsy in JavaScript (null)
NullValue == [null |-> TRUE]

\* !existingTranslations[lang] (line 674): the property is looked up along the
\* prototype chain and its value is tested for truthiness
notTruthy(existing, lang) ==
  IF lang \in DOMAIN existing THEN existing[lang] = NullValue
  ELSE lang \notin ObjectPrototypeKeys

\* variant: nothing is ever reported missing
getMissingLanguages_NoneMissing(existing, requested) == <<>>

getMissingLanguages(existing, requested) ==
  IF DOMAIN existing = {} THEN requested
  ELSE SelectSeq(requested, LAMBDA lang : notTruthy(existing, lang))

\* variant: a language already present keeps its value
mergeTranslations_KeepsExisting(existing, newTranslations) ==
  [l \in (DOMAIN existing) \cup (DOMAIN newTranslations) |->
     IF l \in DOMAIN existing THEN existing[l] ELSE newTranslations[l]]

\* { ...existing, ...newTranslations }
mergeTranslations(existing, newTranslations) ==
  [l \in (DOMAIN existing) \cup (DOMAIN newTranslations) |->
     IF l \in DOMAIN newTranslations THEN newTranslations[l] ELSE existing[l]]

\* variant: the source language stays among the targets
filterSource_KeepsAll(targetLanguages, sourceLang) == targetLanguages

filterSource(targetLanguages, sourceLang) ==
  SelectSeq(targetLanguages, LAMBDA lang : lang # sourceLang)

sourceLangOf(metadata) == IF metadata.lang = "" THEN "en" ELSE metadata.lang

\* ------------------------------------------------------------------ state
VARIABLES
  cacheModule,          \* which cache-utils.js the import resolves to: "redis" | "file"
  now,                  \* Date.now()
  memoryCache,          \* Map cacheKey -> entry (in-process backend / file-backed cache)
  cacheFile,            \* .cache/translations.json as last persisted (file-backed cache)
  redisClient,          \* "null" | "created" | "ready"
  useInMemoryFallback,
  redisStore,           \* durable store: redis key -> [data, expireAt]
  lastGet,              \* outcome of the latest direct getCachedTranslation call
  apiCalls,             \* number of direct cache-utils calls so far
  pc,                   \* position of the translate request: "idle" | "exec" | "pending" | "done"
  metadata,             \* arguments and locals of the request in progress
  targetLanguages,
  actualTargets,
  existingTranslations,
  missingLanguages,
  engineCalls,          \* target lists the engine was configured with during this request
  ret,                  \* what the request gave its caller
  path,                 \* the return statement or throw the request left through
  liveAtStart,          \* languages with a live cached translation when the request began
  coldAtStart,          \* no live entry under the key of any sub-list when the request began
  prev,                 \* the request completed before the current one
  clearedSince,         \* clearCache ran since that request completed
  i18nConfig,           \* frontend/i18n.json
  i18nFiles,            \* frontend/i18n/<locale>.json
  invocations,          \* engine invocations so far
  requests,             \* translate requests begun so far
  execError,            \* the failure of the latest engine invocation
  startedAt,            \* clock value when the request began
  doneAt,               \* clock value when the request returned or threw
  entryAt,              \* timestamp of the cache entry the returned result is stored in (0: none)
  liveSubAtStart,       \* languages live under the key of a sub-list when the request began
  keyCall,              \* the latest getCacheKey call made on its own, with its result
  keyPrev,              \* the getCacheKey call before that one
  callerPc,             \* per caller of initializeRedis, where it stands
  callerClient,         \* per caller, the client initializeRedis returned to it (0: null)
  clients,              \* the durable clients created at line 507, each "created" | "ready" | "failed"
  clientRef,            \* the client the module variable redisClient refers to (0: null)
  issuedOn,             \* per cache operation, what its command was issued on
  budget,               \* how many translate requests the behaviour may hold
  completedAt,          \* per engine invocation, the time at which execSync came back
  subsetCall,           \* the latest getLanguageSubsets call made on its own, with its result
  missCall,             \* the latest getMissingLanguages call made on its own, with its result
  waiting,              \* handlers that were entered and still await scrapeMetadata
  others,               \* handlers still waiting when the current request began translating
  lookups,              \* target lists whose cache key the request has looked up
  setAt,                \* per cache key, when setCachedTranslation was last called directly
  lastSet               \* per cache key, what that call was given and what became of it

cacheVars == <<cacheModule, memoryCache, cacheFile, redisClient, useInMemoryFallback, redisStore>>
initVars == <<callerPc, callerClient, clients, clientRef, issuedOn>>
auxVars == <<subsetCall, completedAt, budget, initVars>>
apiVars == <<lastGet, apiCalls, setAt, lastSet, keyCall, keyPrev, missCall, auxVars>>
reqVars == <<pc, metadata, targetLanguages, actualTargets, existingTranslations,
             missingLanguages, engineCalls, ret, path, liveAtStart, coldAtStart,
             prev, clearedSince, requests, execError, startedAt, doneAt, entryAt,
             liveSubAtStart, lookups, waiting, others>>
fsVars == <<i18nConfig, i18nFiles, invocations>>
vars == <<now, cacheVars, apiVars, reqVars, fsVars>>

\* ----------------------------------------------------------- cache entries
NewEntry(translations, targets, t) ==
  [translations |-> translations, targetLanguages |-> targets, timestamp |-> t]

NoEntry == NewEntry(NoTranslations, <<>>, 0)

EmptyMap == [k \in {} |-> NoEntry]

\* variant: the age in ticks is compared with the expiry taken a thousand times
isCacheValid_WrongUnit(entry, t) ==
  /\ entry.timestamp # 0
  /\ t - entry.timestamp < CACHE_EXPIRY_SECONDS * 1000

isCacheValid(entry, t) ==
  /\ entry.timestamp # 0
  /\ t - entry.timestamp < CACHE_EXPIRY_SECONDS

\* the age test of the Redis read path (line 611)
redisEntryExpired(entry, t) ==
  /\ entry.timestamp # 0
  /\ t - entry.timestamp > CACHE_EXPIRY_SECONDS

MapSet(m, k, v) == [x \in (DOMAIN m) \cup {k} |-> IF x = k THEN v ELSE m[x]]
MapDel(m, k) == [x \in (DOMAIN m) \ {k} |-> m[x]]

\* variant: the validity test is inverted
memoryGet_InvertedValidity(mc, k, t) ==
  IF k \notin DOMAIN mc THEN [hit |-> FALSE, entry |-> NoEntry, mc |-> mc]
  ELSE IF isCacheValid(mc[k], t) THEN [hit |-> FALSE, entry |-> NoEntry, mc |-> MapDel(mc, k)]
  ELSE [hit |-> TRUE, entry |-> mc[k], mc |-> mc]

\* memoryCache.get + isCacheValid + memoryCache.delete of getCachedTranslation
memoryGet(mc, k, t) ==
  IF k \notin DOMAIN mc THEN [hit |-> FALSE, entry |-> NoEntry, mc |-> mc]
  ELSE IF ~isCacheValid(mc[k], t) THEN [hit |-> FALSE, entry |-> NoEntry, mc |-> MapDel(mc, k)]
  ELSE [hit |-> TRUE, entry |-> mc[k], mc |-> mc]

\* variant: nothing reaches the cache file
persistCache_WritesNothing(mc, t) == EmptyMap

persistCache(mc, t) == [k \in {x \in DOMAIN mc : isCacheValid(mc[x], t)} |-> mc[k]]

\* outcomes of one completed initializeRedis() call
initializeRedis(client, fallback) ==
  IF client # "null" /\ ~fallback THEN {[client |-> client, fallback |-> fallback, ret |-> "client"]}
  ELSE IF fallback THEN {[client |-> client, fallback |-> TRUE, ret |-> "null"]}
  ELSE {[client |-> "null", fallback |-> TRUE, ret |-> "null"],      \* test connection failed
        [client |-> "created", fallback |-> TRUE, ret |-> "null"],   \* connect() failed
        [client |-> "ready", fallback |-> FALSE, ret |-> "client"]}  \* connected

\* body of the async getCachedTranslation after initializeRedis returned io;
\* fail: the Redis command throws
redisGet(k, io, fail, mc, rs, t) ==
  IF io.ret = "null" \/ io.fallback
  THEN LET g == memoryGet(mc, k, t) IN [hit |-> g.hit, entry |-> g.entry, mc |-> g.mc, rs |-> rs]
  ELSE IF fail \/ getRedisKey(k) \notin DOMAIN rs
       THEN [hit |-> FALSE, entry |-> NoEntry, mc |-> mc, rs |-> rs]
       ELSE LET entry == rs[getRedisKey(k)].data IN
            IF redisEntryExpired(entry, t)
            THEN [hit |-> FALSE, entry |-> NoEntry, mc |-> mc, rs |-> MapDel(rs, getRedisKey(k))]
            ELSE [hit |-> TRUE, entry |-> entry, mc |-> mc, rs |-> rs]

\* variant: a key that is already stored keeps its entry
redisSet_KeepsFirst(k, entry, io, fail, mc, rs, t) ==
  IF io.ret = "null" \/ io.fallback
  THEN [mc |-> IF k \in DOMAIN mc THEN mc ELSE MapSet(mc, k, entry), rs |-> rs]
  ELSE IF fail \/ getRedisKey(k) \in DOMAIN rs THEN [mc |-> mc, rs |-> rs]
       ELSE [mc |-> mc,
             rs |-> MapSet(rs, getRedisKey(k),
                           [data |-> entry, expireAt |-> t + CACHE_EXPIRY_SECONDS])]

\* body of the async setCachedTranslation after initializeRedis returned io
redisSet(k, entry, io, fail, mc, rs, t) ==
  IF io.ret = "null" \/ io.fallback
  THEN [mc |-> MapSet(mc, k, entry), rs |-> rs]
  ELSE IF fail THEN [mc |-> mc, rs |-> rs]
       ELSE [mc |-> mc,
             rs |-> MapSet(rs, getRedisKey(k),
                           [data |-> entry, expireAt |-> t + CACHE_EXPIRY_SECONDS])]

\* native expiry of the durable store
redisExpire(rs, t) == [k \in {x \in DOMAIN rs : t < rs[x].expireAt} |-> rs[k]]

\* ------------------------------------------------------------ file system
AbsentFile == [state |-> "absent", content |-> "", inv |-> 0]
GarbageFile == [state |-> "garbage", content |-> "", inv |-> 0]
JsonFile(body, inv) == [state |-> "json", content |-> body, inv |-> inv]

NoConfig == [source |-> "", targets |-> <<>>]

\* setupI18nConfig: the config is rewritten with exactly the given targets
setupI18nConfig(sourceLang, targetLangs) == [source |-> sourceLang, targets |-> targetLangs]

\* -------------------------------------------------------------- failures
\* Failures execSync can raise. stdio is 'inherit', so stderr is not captured
\* and a non-zero exit always carries the message "Command failed: <command>",
\* whatever made the engine fail (cause).
CommandFailed == "Command failed: npx lingo.dev@latest run"
SpawnFailed == "spawnSync /bin/sh ENOENT"
ParseFailed == "Unexpected token < in JSON at position 0"
InvalidKeyMessage == "Invalid Lingo.dev API key. Please check your API key and try again."
QuotaMessage == "Lingo.dev API quota exceeded. Please check your account limits."
NetworkMessage == "Network error while connecting to Lingo.dev. Please try again later."

ExecErrors ==
  {[cause |-> c, message |-> CommandFailed, stderr |-> ""] : c \in {"auth", "quota", "network", "other"}}
  \cup {[cause |-> "other", message |-> SpawnFailed, stderr |-> ""]}

NoError == [cause |-> "", message |-> "", stderr |-> ""]

\* the substrings the catch blocks search for, per message text
Includes(text) ==
  CASE text = CommandFailed -> {"Command failed"}
    [] text = InvalidKeyMessage -> {"API key"}
    [] text = QuotaMessage -> {"quota", "limit"}
    [] OTHER -> {}

\* inner catch around execSync (lines 262-272): the error it rethrows
innerCatch(execErr) ==
  IF (Includes(execErr.message) \cup Includes(execErr.stderr))
       \cap {"Authentication failed", "unauthorized"} # {}
  THEN [cause |-> execErr.cause, message |-> InvalidKeyMessage, stderr |-> ""]
  ELSE execErr

\* outer catch (lines 302-324): the message it throws, or "" when it goes on
\* to build the error translations
outerCatchThrows(error) ==
  IF (Includes(error.message) \cup Includes(error.stderr))
       \cap {"Authentication failed", "unauthorized", "invalid", "authentication",
             "API key", "Command failed"} # {}
  THEN InvalidKeyMessage
  ELSE IF Includes(error.message) \cap {"quota", "limit", "rate"} # {} THEN QuotaMessage
  ELSE IF Includes(error.message) \cap {"network", "timeout", "ECONNREFUSED"} # {} THEN NetworkMessage
  ELSE ""

\* lines 326-335
errorTranslations(targets, existing, body, errorMessage) ==
  [l \in Range(targets) |->
     IF l \in DOMAIN existing THEN existing[l]
     ELSE ErrorMarker(body, "Translation failed: " \o errorMessage)]

\* ------------------------------------------------------ request results
NoRet == [kind |-> "none", value |-> NoTranslations, error |-> ""]
Value(tr) == [kind |-> "value", value |-> tr, error |-> ""]
NullRet == [kind |-> "null", value |-> NoTranslations, error |-> ""]
Thrown(msg) == [kind |-> "throw", value |-> NoTranslations, error |-> msg]

NoPrev == [valid |-> FALSE, metadata |-> [lang |-> "", body |-> "c1"], actualTargets |-> <<>>,
           ret |-> NoRet, path |-> "none", doneAt |-> 0, entryAt |-> 0, cleared |-> FALSE,
           others |-> 0, engineCalls |-> <<>>, coldAtStart |-> FALSE]

\* variant: one run of the engine per language
execSync_PerLanguage(calls, config) ==
  calls \o [i \in 1..Len(config.targets) |-> <<config.targets[i]>>]

\* lines 253-260: one run of the engine over the whole configured target list
execSync(calls, config) == Append(calls, config.targets)

\* lines 200-212: probe every sub-list key in order, merging the hits
RECURSIVE resolvePartial(_, _, _, _, _, _, _)
resolvePartial(subsets, i, body, sourceLang, existing, mc, t) ==
  IF i > Len(subsets) THEN [existing |-> existing, mc |-> mc]
  ELSE LET g == memoryGet(mc, getCacheKey(body, sourceLang, subsets[i]), t) IN
       resolvePartial(subsets, i + 1, body, sourceLang,
                      IF g.hit THEN mergeTranslations(existing, g.entry.translations)
                      ELSE existing,
                      g.mc, t)

\* the cache entries stored for this content and source language
EntriesFor(mc, body, sourceLang) ==
  {k \in DOMAIN mc : k = getCacheKey(body, sourceLang, mc[k].targetLanguages)}

\* languages that have a translation in a live entry stored under one of keys
LiveLangs(mc, keys, t) ==
  {l \in FileCodes : \E k \in keys \cap DOMAIN mc :
     /\ mc[k].timestamp # 0
     /\ t - mc[k].timestamp < CACHE_EXPIRY_SECONDS
     /\ l \in DOMAIN mc[k].translations
     /\ mc[k].translations[l]._error = ""}

RECURSIVE PickSeq(_, _)
PickSeq(s, idx) ==
  IF idx = {} THEN <<>>
  ELSE LET i == CHOOSE x \in idx : \A y \in idx : x <= y
       IN <<s[i]>> \o PickSeq(s, idx \ {i})

\* the keys of the non-empty sub-lists of targets, targets itself included
SubKeys(body, sourceLang, targets) ==
  {getCacheKey(body, sourceLang, PickSeq(targets, idx)) :
     idx \in (SUBSET (1..Len(targets))) \ {{}}}

Cold(mc, body, sourceLang, targets, t) ==
  \A k \in EntriesFor(mc, body, sourceLang) :
     ~(/\ mc[k].timestamp # 0
       /\ t - mc[k].timestamp < CACHE_EXPIRY_SECONDS
       /\ Range(mc[k].targetLanguages) \subseteq Range(targets))

\* what is known of the latest setCachedTranslation(k, ...): the translations it
\* was given, when, whether its Redis command threw (lost), and whether
\* clearCache ran after it
SetRecord(translations, t, lost) ==
  [set |-> TRUE, translations |-> translations, at |-> t, lost |-> lost, cleared |-> FALSE]

NeverSet == [set |-> FALSE, translations |-> NoTranslations, at |-> 0, lost |-> FALSE,
             cleared |-> FALSE]

NoKeyCall == [called |-> FALSE, content |-> "", sourceLang |-> "", targetLangs |-> <<>>,
              after |-> <<>>, key |-> ""]

\* ------------------------------------------------------------------ Init
\* the state of the modules once they are loaded
ModuleLoad ==
  /\ now = 1
  /\ memoryCache = EmptyMap
  /\ cacheFile = EmptyMap
  /\ redisClient = "null"
  /\ useInMemoryFallback = FALSE
  /\ redisStore = [k \in {} |-> [data |-> NoEntry, expireAt |-> 0]]
  /\ lastGet = [key |-> "", hit |-> FALSE, entry |-> NoEntry, at |-> 0, backend |-> "",
                failed |-> FALSE, last |-> NeverSet]
  /\ apiCalls = 0
  /\ pc = "idle"
  /\ metadata = [lang |-> "", body |-> "c1"]
  /\ targetLanguages = <<>>
  /\ actualTargets = <<>>
  /\ existingTranslations = NoTranslations
  /\ missingLanguages = <<>>
  /\ engineCalls = <<>>
  /\ ret = NoRet
  /\ path = "none"
  /\ liveAtStart = {}
  /\ coldAtStart = FALSE
  /\ prev = NoPrev
  /\ clearedSince = FALSE
  /\ i18nConfig = NoConfig
  /\ i18nFiles = [l \in FileCodes |-> AbsentFile]
  /\ invocations = 0
  /\ requests = 0
  /\ execError = NoError
  /\ startedAt = 0
  /\ doneAt = 0
  /\ entryAt = 0
  /\ liveSubAtStart = {}
  /\ lookups = {}
  /\ waiting = 0
  /\ others = 0
  /\ setAt = [k \in {} |-> 0]
  /\ lastSet = [k \in {} |-> NeverSet]
  /\ keyCall = NoKeyCall
  /\ keyPrev = NoKeyCall
  /\ subsetCall = [called |-> FALSE, languages |-> <<>>, result |-> <<>>]
  /\ completedAt = <<>>
  /\ callerPc = [c \in Callers |-> "start"]
  /\ callerClient = [c \in Callers |-> 0]
  /\ clients = <<>>
  /\ clientRef = 0
  /\ issuedOn = [c \in Operations |-> "nothing"]
  /\ missCall = [called |-> FALSE, existing |-> NoTranslations, requested |-> <<>>,
                 result |-> <<>>]

Init ==
  /\ cacheModule \in {"redis", "file"}
  /\ budget = MaxRequests
  /\ ModuleLoad

\* POST /api/scrape-translate-score is entered and awaits scrapeMetadata; no
\* handler is entered while execSync blocks the event loop
Arrive ==
  /\ pc # "exec"
  /\ requests + waiting < budget
  /\ waiting' = waiting + 1
  /\ UNCHANGED <<now, cacheVars, apiVars, fsVars, pc, metadata, targetLanguages,
                 actualTargets, existingTranslations, missingLanguages, engineCalls, ret,
                 path, liveAtStart, coldAtStart, prev, clearedSince, requests, execError,
                 startedAt, doneAt, entryAt, liveSubAtStart, lookups, others>>

\* ------------------------------------------------- processMetadataTranslations
\* variant: a call may start while another one waits for the engine
NoCallInside_Interleaved == TRUE

\* no call of the function is under way: the function holds no await and
\* execSync blocks the event loop until the engine has exited
NoCallInside == pc \in {"idle", "done"}

\* what every entry into the function records about the call before it
BeginBookkeeping(md, tl) ==
  /\ NoCallInside
  /\ requests < budget
  /\ waiting > 0
  /\ waiting' = waiting - 1
  /\ others' = waiting - 1
  /\ requests' = requests + 1
  /\ metadata' = md
  /\ targetLanguages' = tl
  /\ actualTargets' = filterSource(tl, sourceLangOf(md))
  /\ startedAt' = now
  /\ execError' = NoError
  /\ prev' = IF pc = "done"
             THEN [valid |-> TRUE, metadata |-> metadata, actualTargets |-> actualTargets,
                   ret |-> ret, path |-> path, doneAt |-> doneAt, entryAt |-> entryAt,
                   cleared |-> clearedSince, others |-> others, engineCalls |-> engineCalls,
                   coldAtStart |-> coldAtStart]
             ELSE NoPrev
  /\ clearedSince' = FALSE
  /\ liveAtStart' = LiveLangs(memoryCache, EntriesFor(memoryCache, md.body, sourceLangOf(md)), now)
  /\ liveSubAtStart' = LiveLangs(memoryCache,
                                 SubKeys(md.body, sourceLangOf(md),
                                         filterSource(tl, sourceLangOf(md))), now)
  /\ coldAtStart' = Cold(memoryCache, md.body, sourceLangOf(md),
                        filterSource(tl, sourceLangOf(md)), now)

\* lines 136-146: every target equals the source language
RequestNoTargets(md, tl) ==
  /\ BeginBookkeeping(md, tl)
  /\ filterSource(tl, sourceLangOf(md)) = <<>>
  /\ pc' = "done"
  /\ ret' = Value(NoTranslations)
  /\ path' = "noTargets"
  /\ lookups' = {}
  /\ doneAt' = now
  /\ entryAt' = 0
  /\ existingTranslations' = NoTranslations
  /\ missingLanguages' = <<>>
  /\ engineCalls' = <<>>
  /\ UNCHANGED <<now, cacheVars, apiVars, fsVars>>

\* lines 191-198 against the Redis-backed cache-utils: getCachedTranslation is
\* async and is not awaited, so cachedTranslations is a Promise, the test at
\* line 195 succeeds and the Promise is what the function returns
RequestPromise(md, tl) ==
  /\ cacheModule = "redis"
  /\ BeginBookkeeping(md, tl)
  /\ filterSource(tl, sourceLangOf(md)) # <<>>
  /\ pc' = "pending"
  /\ lookups' = {filterSource(tl, sourceLangOf(md))}
  /\ ret' = NoRet
  /\ path' = "fullHit"
  /\ doneAt' = 0
  /\ entryAt' = 0
  /\ existingTranslations' = NoTranslations
  /\ missingLanguages' = <<>>
  /\ engineCalls' = <<>>
  /\ UNCHANGED <<now, cacheVars, apiVars, fsVars>>

\* the pending getCachedTranslation settles and with it the caller's await
PromiseSettles ==
  /\ pc = "pending"
  /\ \E io \in initializeRedis(redisClient, useInMemoryFallback), fail \in BOOLEAN :
       LET k == getCacheKey(metadata.body, sourceLangOf(metadata), actualTargets)
           g == redisGet(k, io, fail, memoryCache, redisStore, now)
       IN /\ redisClient' = io.client
          /\ useInMemoryFallback' = io.fallback
          /\ memoryCache' = g.mc
          /\ redisStore' = g.rs
          /\ ret' = IF g.hit THEN Value(g.entry.translations) ELSE NullRet
          /\ entryAt' = g.entry.timestamp
  /\ pc' = "done"
  /\ doneAt' = now
  /\ UNCHANGED <<now, cacheModule, cacheFile, apiVars, fsVars, metadata, targetLanguages,
                 actualTargets, existingTranslations, missingLanguages, engineCalls, path,
                 liveAtStart, coldAtStart, prev, clearedSince, requests, execError, startedAt,
                 liveSubAtStart, lookups, waiting, others>>

\* lines 136-260 against the file-backed cache-utils, up to the execSync call
RequestSync(md, tl) ==
  /\ cacheModule = "file"
  /\ BeginBookkeeping(md, tl)
  /\ filterSource(tl, sourceLangOf(md)) # <<>>
  /\ lookups' = LET targets == filterSource(tl, sourceLangOf(md))
                     cacheKey == getCacheKey(md.body, sourceLangOf(md), targets)
                 IN IF memoryGet(memoryCache, cacheKey, now).hit THEN {targets}
                    ELSE {targets} \cup Range(getLanguageSubsets(targets))
  /\ LET sourceLang == sourceLangOf(md)
         targets == filterSource(tl, sourceLang)
         cacheKey == getCacheKey(md.body, sourceLang, targets)
         full == memoryGet(memoryCache, cacheKey, now)
         part == resolvePartial(getLanguageSubsets(targets), 1, md.body, sourceLang,
                                NoTranslations, full.mc, now)
         missing == getMissingLanguages(part.existing, targets)
     IN IF full.hit
        THEN \* line 197
             /\ pc' = "done"
             /\ ret' = Value(full.entry.translations)
             /\ path' = "fullHit"
             /\ doneAt' = now
             /\ entryAt' = full.entry.timestamp
             /\ memoryCache' = full.mc
             /\ existingTranslations' = NoTranslations
             /\ missingLanguages' = <<>>
             /\ engineCalls' = <<>>
             /\ UNCHANGED <<cacheFile, fsVars>>
        ELSE IF missing = <<>>
        THEN \* lines 217-221
             /\ pc' = "done"
             /\ ret' = Value(part.existing)
             /\ path' = "allCached"
             /\ doneAt' = now
             /\ entryAt' = now
             /\ memoryCache' = MapSet(part.mc, cacheKey, NewEntry(part.existing, targets, now))
             /\ cacheFile' = persistCache(memoryCache', now)
             /\ existingTranslations' = part.existing
             /\ missingLanguages' = <<>>
             /\ engineCalls' = <<>>
             /\ UNCHANGED fsVars
        ELSE IF i18nFiles[sourceLang].state = "garbage"
        THEN \* line 238 throws; lines 302-335
             /\ pc' = "done"
             /\ ret' = Value(errorTranslations(targets, part.existing, md.body, ParseFailed))
             /\ path' = "errorTranslations"
             /\ doneAt' = now
             /\ entryAt' = 0
             /\ memoryCache' = part.mc
             /\ existingTranslations' = part.existing
             /\ missingLanguages' = missing
             /\ engineCalls' = <<>>
             /\ i18nConfig' = setupI18nConfig(sourceLang, missing)
             /\ UNCHANGED <<cacheFile, i18nFiles, invocations>>
        ELSE \* lines 225-253: stage and start the engine
             /\ pc' = "exec"
             /\ ret' = NoRet
             /\ path' = "none"
             /\ doneAt' = 0
             /\ entryAt' = 0
             /\ memoryCache' = part.mc
             /\ existingTranslations' = part.existing
             /\ missingLanguages' = missing
             /\ i18nConfig' = setupI18nConfig(sourceLang, missing)
             /\ i18nFiles' = [i18nFiles EXCEPT ![sourceLang] = JsonFile(md.body, 0)]
             /\ invocations' = invocations + 1
             /\ engineCalls' = execSync(<<>>, i18nConfig')
             /\ UNCHANGED cacheFile
  /\ UNCHANGED <<now, cacheModule, redisClient, useInMemoryFallback, redisStore, apiVars>>

\* what the request leaves unchanged once the engine has been started
ExecFrame ==
  UNCHANGED <<now, cacheModule, redisClient, useInMemoryFallback, redisStore, lastGet,
              apiCalls, setAt, lastSet, keyCall, keyPrev, missCall, subsetCall, budget, initVars, metadata, targetLanguages, actualTargets, existingTranslations,
              missingLanguages, engineCalls, liveAtStart, coldAtStart, prev, clearedSince,
              requests, startedAt, i18nConfig, invocations, liveSubAtStart, lookups, waiting, others>>

\* the files the engine leaves behind: out gives, per configured target, whether
\* its file was written, written unparsable, or not written at all
engineWrites(files, config, out, inv) ==
  [l \in FileCodes |->
     IF l \in DOMAIN out /\ out[l] = "written" THEN JsonFile(files[config.source].content, inv)
     ELSE IF l \in DOMAIN out /\ out[l] = "garbage" THEN GarbageFile
     ELSE files[l]]

\* lines 274-290
readBack(files, missing, body) ==
  [l \in Range(missing) |->
     IF files[l].state = "absent" THEN ErrorMarker(body, "Translation file not generated")
     ELSE Translated(files[l].content, files[l].inv)]

\* execSync returns normally; lines 274-300, or 302-335 when a file does not parse
ExecSuccess(out) ==
  /\ pc = "exec"
  /\ LET sourceLang == sourceLangOf(metadata)
         cacheKey == getCacheKey(metadata.body, sourceLang, actualTargets)
         files == engineWrites(i18nFiles, i18nConfig, out, invocations)
         allTranslations == mergeTranslations(existingTranslations,
                                              readBack(files, missingLanguages, metadata.body))
     IN /\ i18nFiles' = files
        /\ IF \E l \in Range(missingLanguages) : files[l].state = "garbage"
           THEN /\ ret' = Value(errorTranslations(actualTargets, existingTranslations,
                                                  metadata.body, ParseFailed))
                /\ path' = "errorTranslations"
                /\ entryAt' = 0
                /\ UNCHANGED <<memoryCache, cacheFile>>
           ELSE /\ ret' = Value(allTranslations)
                /\ path' = "translated"
                /\ entryAt' = now
                /\ memoryCache' = MapSet(memoryCache, cacheKey,
                                         NewEntry(allTranslations, actualTargets, now))
                /\ cacheFile' = persistCache(memoryCache', now)
  /\ pc' = "done"
  /\ doneAt' = now
  /\ execError' = NoError
  /\ completedAt' = Append(completedAt, now)
  /\ ExecFrame

\* variant: the error translations are cached under the full key before returning or throwing
ExecFailure_Publishes(e) ==
  /\ pc = "exec"
  /\ execError' = e
  /\ completedAt' = Append(completedAt, now)
  /\ LET error == innerCatch(e)
         thrown == outerCatchThrows(error)
     IN IF thrown # ""
        THEN /\ ret' = Thrown(thrown)
             /\ path' = "thrown"
        ELSE /\ ret' = Value(errorTranslations(actualTargets, existingTranslations,
                                               metadata.body, error.message))
             /\ path' = "errorTranslations"
  /\ memoryCache' = MapSet(memoryCache,
                           getCacheKey(metadata.body, sourceLangOf(metadata), actualTargets),
                           NewEntry(errorTranslations(actualTargets, existingTranslations,
                                                      metadata.body, e.message),
                                    actualTargets, now))
  /\ pc' = "done"
  /\ doneAt' = now
  /\ entryAt' = 0
  /\ UNCHANGED <<cacheFile, i18nFiles>>
  /\ ExecFrame

\* execSync throws e; lines 262-272 and 302-335
ExecFailure(e) ==
  /\ pc = "exec"
  /\ execError' = e
  /\ completedAt' = Append(completedAt, now)
  /\ LET error == innerCatch(e)
         thrown == outerCatchThrows(error)
     IN IF thrown # ""
        THEN /\ ret' = Thrown(thrown)
             /\ path' = "thrown"
        ELSE /\ ret' = Value(errorTranslations(actualTargets, existingTranslations,
                                               metadata.body, error.message))
             /\ path' = "errorTranslations"
  /\ pc' = "done"
  /\ doneAt' = now
  /\ entryAt' = 0
  /\ UNCHANGED <<memoryCache, cacheFile, i18nFiles>>
  /\ ExecFrame

\* ------------------------------------------------------------ environment
Tick ==
  /\ now < MaxTime
  /\ now' = now + 1
  /\ redisStore' = redisExpire(redisStore, now + 1)
  /\ UNCHANGED <<cacheModule, memoryCache, cacheFile, redisClient, useInMemoryFallback,
                 apiVars, reqVars, fsVars>>

\* clearCache of either module (DELETE /api/cache); it cannot run while
\* execSync blocks the event loop
clearCache ==
  /\ pc # "exec"
  /\ IF cacheModule = "file"
     THEN /\ memoryCache' = EmptyMap
          /\ cacheFile' = EmptyMap
          /\ UNCHANGED <<redisClient, useInMemoryFallback, redisStore>>
     ELSE \E io \in initializeRedis(redisClient, useInMemoryFallback), fail \in BOOLEAN :
            /\ redisClient' = io.client
            /\ useInMemoryFallback' = io.fallback
            /\ UNCHANGED cacheFile
            /\ IF io.ret = "null" \/ io.fallback
               THEN memoryCache' = EmptyMap /\ UNCHANGED redisStore
               ELSE /\ UNCHANGED memoryCache
                    /\ redisStore' = IF fail THEN redisStore
                                     ELSE [k \in {} |-> [data |-> NoEntry, expireAt |-> 0]]
  /\ clearedSince' = TRUE
  /\ lastSet' = [k \in DOMAIN lastSet |-> [lastSet[k] EXCEPT !.cleared = TRUE]]
  /\ UNCHANGED <<now, cacheModule, lastGet, apiCalls, setAt, keyCall, keyPrev, missCall, auxVars, fsVars, pc, metadata, targetLanguages,
                 actualTargets, existingTranslations, missingLanguages, engineCalls, ret,
                 path, liveAtStart, coldAtStart, prev, requests, execError, startedAt, doneAt,
                 entryAt, liveSubAtStart, lookups, waiting, others>>

\* ------------------------------------------------- direct cache-utils calls
ApiTargets == {<<"es">>, <<"es", "fr">>}
ApiKeys == {getCacheKey("c1", "en", tl) : tl \in ApiTargets}
ApiTranslations(tl) == {[l \in Range(tl) |-> Translated("c1", n)] : n \in 1..2}

\* getCachedTranslation(k) called on its own and run to completion
GetCached(k) ==
  /\ apiCalls < MaxApiCalls
  /\ apiCalls' = apiCalls + 1
  /\ IF cacheModule = "file"
     THEN LET g == memoryGet(memoryCache, k, now) IN
          /\ memoryCache' = g.mc
          /\ lastGet' = [key |-> k, hit |-> g.hit, entry |-> g.entry, at |-> now,
                         backend |-> "memory", failed |-> FALSE,
                         last |-> IF k \in DOMAIN lastSet THEN lastSet[k] ELSE NeverSet]
          /\ UNCHANGED <<redisClient, useInMemoryFallback, redisStore>>
     ELSE \E io \in initializeRedis(redisClient, useInMemoryFallback), fail \in BOOLEAN :
            LET g == redisGet(k, io, fail, memoryCache, redisStore, now) IN
            /\ redisClient' = io.client
            /\ useInMemoryFallback' = io.fallback
            /\ memoryCache' = g.mc
            /\ redisStore' = g.rs
            /\ lastGet' = [key |-> k, hit |-> g.hit, entry |-> g.entry, at |-> now,
                           backend |-> IF io.ret = "null" \/ io.fallback THEN "memory"
                                       ELSE "redis",
                           failed |-> fail /\ ~(io.ret = "null" \/ io.fallback),
                           last |-> IF k \in DOMAIN lastSet THEN lastSet[k] ELSE NeverSet]
  /\ UNCHANGED <<now, cacheModule, cacheFile, setAt, lastSet, keyCall, keyPrev, missCall, auxVars, reqVars, fsVars>>

\* setCachedTranslation(k, translations, tl) called on its own and run to completion
SetCached(k, translations, tl) ==
  /\ apiCalls < MaxApiCalls
  /\ apiCalls' = apiCalls + 1
  /\ setAt' = MapSet(setAt, k, now)
  /\ IF cacheModule = "file"
     THEN /\ memoryCache' = MapSet(memoryCache, k, NewEntry(translations, tl, now))
          /\ cacheFile' = persistCache(memoryCache', now)
          /\ lastSet' = MapSet(lastSet, k, SetRecord(translations, now, FALSE))
          /\ UNCHANGED <<redisClient, useInMemoryFallback, redisStore>>
     ELSE \E io \in initializeRedis(redisClient, useInMemoryFallback), fail \in BOOLEAN :
            LET r == redisSet(k, NewEntry(translations, tl, now), io, fail,
                              memoryCache, redisStore, now) IN
            /\ redisClient' = io.client
            /\ useInMemoryFallback' = io.fallback
            /\ memoryCache' = r.mc
            /\ redisStore' = r.rs
            /\ lastSet' = MapSet(lastSet, k,
                                 SetRecord(translations, now,
                                           fail /\ ~(io.ret = "null" \/ io.fallback)))
            /\ UNCHANGED cacheFile
  /\ UNCHANGED <<now, cacheModule, lastGet, keyCall, keyPrev, missCall, auxVars, reqVars, fsVars>>

\* getCacheKey(content, sourceLang, targetLangs) called on its own
KeyCall(content, sourceLang, targetLangs) ==
  /\ keyPrev' = keyCall
  /\ keyCall' = [called |-> TRUE, content |-> content, sourceLang |-> sourceLang,
                 targetLangs |-> targetLangs, after |-> sortCopy(targetLangs).caller,
                 key |-> getCacheKey(content, sourceLang, targetLangs)]
  /\ UNCHANGED <<now, cacheVars, lastGet, apiCalls, setAt, lastSet, missCall, auxVars, reqVars, fsVars>>

\* the objects getMissingLanguages is called with: per language a translation or null
MissExisting ==
  UNION {[d -> {Translated("c1", 1), NullValue}] : d \in SUBSET MissCodes}

\* getMissingLanguages(existing, requested) called on its own
MissingCall(existing, requested) ==
  /\ missCall' = [called |-> TRUE, existing |-> existing, requested |-> requested,
                  result |-> getMissingLanguages(existing, requested)]
  /\ UNCHANGED <<now, cacheVars, lastGet, apiCalls, setAt, lastSet, keyCall, keyPrev,
                 auxVars, reqVars, fsVars>>

\* getLanguageSubsets(languages) called on its own
SubsetsCall(languages) ==
  /\ subsetCall' = [called |-> TRUE, languages |-> languages,
                    result |-> getLanguageSubsets(languages)]
  /\ UNCHANGED <<now, cacheVars, lastGet, apiCalls, setAt, lastSet, keyCall, keyPrev,
                 missCall, completedAt, budget, initVars, reqVars, fsVars>>

\* ------------------------------------------------------------ specifications
Outputs(missing) == [Range(missing) -> {"written", "garbage", "none"}]

Next ==
  \/ Arrive
  \/ \E md \in Metadatas, tl \in TargetLists : RequestNoTargets(md, tl)
  \/ \E md \in Metadatas, tl \in TargetLists : RequestPromise(md, tl)
  \/ \E md \in Metadatas, tl \in TargetLists : RequestSync(md, tl)
  \/ PromiseSettles
  \/ \E out \in Outputs(missingLanguages) : ExecSuccess(out)
  \/ \E e \in ExecErrors : ExecFailure(e)
  \/ Tick
  \/ clearCache

Spec == Init /\ [][Next]_vars

NextCache ==
  \/ \E tl \in ApiTargets : \E tr \in ApiTranslations(tl) :
       SetCached(getCacheKey("c1", "en", tl), tr, tl)
  \/ \E k \in ApiKeys : GetCached(k)
  \/ Tick
  \/ clearCache

SpecCache == Init /\ [][NextCache]_vars

NextKey ==
  \E c \in KeyBodies, sl \in KeySources, tl \in KeyTargetLists : KeyCall(c, sl, tl)

SpecKey == Init /\ [][NextKey]_vars

NextMissing ==
  \E existing \in MissExisting, requested \in MissRequested : MissingCall(existing, requested)

SpecMissing == Init /\ [][NextMissing]_vars

NextEntries ==
  \/ Arrive
  \/ \E md \in Metadatas, tl \in EntryLists : RequestSync(md, tl)
  \/ \E out \in Outputs(missingLanguages) : ExecSuccess(out)
  \/ \E e \in ExecErrors : ExecFailure(e)

SpecEntries == Init /\ [][NextEntries]_vars

\* ---- initializeRedis step by step: each await is a point where other callers run
\* what is left unchanged by the steps of initializeRedis and of its callers
InitFrame ==
  UNCHANGED <<now, cacheModule, memoryCache, cacheFile, redisStore, lastGet, apiCalls,
              setAt, lastSet, keyCall, keyPrev, missCall, subsetCall, completedAt, budget,
              reqVars, fsVars>>

\* the caller got the value v from initializeRedis (0: null)
Returned(c, v) ==
  /\ callerClient' = [callerClient EXCEPT ![c] = v]
  /\ callerPc' = [callerPc EXCEPT ![c] = IF c = "load" THEN "done" ELSE "returned"]

\* lines 474-503 up to the first await: the call made while the module loads
\* (lines 808-811) comes first
InitEnter(c) ==
  /\ callerPc[c] = "start"
  /\ c # "load" => callerPc["load"] # "start"
  /\ IF clientRef # 0 /\ ~useInMemoryFallback
     THEN Returned(c, clientRef)                                  \* line 475
     ELSE IF useInMemoryFallback
     THEN Returned(c, 0)                                          \* lines 477-479
     ELSE /\ callerPc' = [callerPc EXCEPT ![c] = "test"]          \* lines 484-495
          /\ UNCHANGED callerClient
  /\ UNCHANGED <<redisClient, useInMemoryFallback, clients, clientRef, issuedOn>>
  /\ InitFrame

\* lines 490-503 fail: the test connection is refused or times out
TestFails(c) ==
  /\ callerPc[c] = "test"
  /\ useInMemoryFallback' = TRUE
  /\ Returned(c, 0)
  /\ UNCHANGED <<redisClient, clients, clientRef, issuedOn>>
  /\ InitFrame

\* lines 490-527: the test connection succeeded; the durable client is created
\* and assigned to redisClient, then connect() is awaited
TestSucceeds(c) ==
  /\ callerPc[c] = "test"
  /\ clients' = Append(clients, "created")
  /\ clientRef' = Len(clients) + 1
  /\ redisClient' = "created"
  /\ callerPc' = [callerPc EXCEPT ![c] = "connect"]
  /\ callerClient' = [callerClient EXCEPT ![c] = Len(clients) + 1]
  /\ UNCHANGED <<useInMemoryFallback, issuedOn>>
  /\ InitFrame

\* lines 527-528: connect() of the caller's client resolves; the function
\* returns what redisClient refers to by then
ConnectSucceeds(c) ==
  /\ callerPc[c] = "connect"
  /\ clients' = [clients EXCEPT ![callerClient[c]] = "ready"]
  /\ redisClient' = clients'[clientRef]
  /\ Returned(c, clientRef)
  /\ UNCHANGED <<useInMemoryFallback, clientRef, issuedOn>>
  /\ InitFrame

\* lines 529-534: connect() rejects
ConnectFails(c) ==
  /\ callerPc[c] = "connect"
  /\ clients' = [clients EXCEPT ![callerClient[c]] = "failed"]
  /\ useInMemoryFallback' = TRUE
  /\ Returned(c, 0)
  /\ UNCHANGED <<redisClient, clientRef, issuedOn>>
  /\ InitFrame

\* lines 584-602 and 631-653: the operation goes on after await initializeRedis():
\* the in-process backend, or a command on the client it was given
Operate(c) ==
  /\ c \in Operations
  /\ callerPc[c] = "returned"
  /\ issuedOn' = [issuedOn EXCEPT ![c] =
                    IF callerClient[c] = 0 \/ useInMemoryFallback THEN "memory"
                    ELSE clients[callerClient[c]]]
  /\ callerPc' = [callerPc EXCEPT ![c] = "done"]
  /\ UNCHANGED <<redisClient, useInMemoryFallback, clients, clientRef, callerClient>>
  /\ InitFrame

InitRedis ==
  /\ cacheModule = "redis"
  /\ budget = MaxRequests
  /\ ModuleLoad

NextInit ==
  \E c \in Callers :
     \/ InitEnter(c)
     \/ TestFails(c)
     \/ TestSucceeds(c)
     \/ ConnectSucceeds(c)
     \/ ConnectFails(c)
     \/ Operate(c)

SpecInit == InitRedis /\ [][NextInit]_vars

\* a request, a request for a longer list, a request for a list longer still and
\* a repetition of it, with the file-backed cache module
AgeLists == {<<"es">>, <<"es", "fr">>, <<"es", "fr", "fr">>}

InitAge ==
  /\ cacheModule = "file"
  /\ budget = MaxAgeRequests
  /\ ModuleLoad

NextAge ==
  \/ Arrive
  \/ \E md \in Metadatas, tl \in AgeLists : RequestSync(md, tl)
  \/ \E out \in [Range(missingLanguages) -> {"written"}] : ExecSuccess(out)
  \/ Tick

SpecAge == InitAge /\ [][NextAge]_vars

NextSubsets == \E languages \in SubsetLists : SubsetsCall(languages)

SpecSubsets == Init /\ [][NextSubsets]_vars

\* target lists of requests that find several cached entries for sub-lists of
\* their targets
ResolverLists == {<<"es", "fr", "fr">>}

\* translate requests over a cache that setCachedTranslation calls have filled
NextResolver ==
  \/ Arrive
  \/ \E tl \in ApiTargets : \E tr \in ApiTranslations(tl) :
       apiCalls < MaxSeeds /\ SetCached(getCacheKey("c1", "en", tl), tr, tl)
  \/ \E md \in Metadatas, tl \in ResolverLists : RequestPromise(md, tl)
  \/ \E md \in Metadatas, tl \in ResolverLists : RequestSync(md, tl)
  \/ PromiseSettles
  \/ \E out \in Outputs(missingLanguages) : ExecSuccess(out)
  \/ \E e \in ExecErrors : ExecFailure(e)
  \/ Tick

SpecResolver == Init /\ [][NextResolver]_vars

\* ================================================================= claims
NoDup(s) == \A i, j \in DOMAIN s : i # j => s[i] # s[j]

\* the request before the current one returned without throwing and without
\* error translations
PrevSucceeded ==
  /\ prev.valid
  /\ prev.ret.kind \in {"value", "null"}
  /\ prev.path \in {"noTargets", "fullHit", "allCached", "translated"}

\* same content and source language as the request before
SameContent == prev.metadata = metadata

\* no clearCache since the request before, and what it cached has not expired
\* when the current request began
Fresh ==
  /\ ~prev.cleared
  /\ prev.entryAt = 0 \/ startedAt - prev.entryAt < CACHE_EXPIRY_SECONDS

FullKey == getCacheKey(metadata.body, sourceLangOf(metadata), actualTargets)

\* C1 (as claimed): a request for a target set T2 that strictly contains the
\* target set T1 of the successful request before it (same content and source,
\* within the TTL, no clear in between) invokes the engine exactly once, with
\* targets T2 minus T1, and its result holds every language of T2, those of T1
\* as the request before returned them.
C1_IncrementalRequest ==
  (/\ pc = "done"
   /\ PrevSucceeded /\ SameContent /\ Fresh
   /\ NoDup(actualTargets) /\ NoDup(prev.actualTargets)
   /\ prev.actualTargets # <<>>
   /\ Range(prev.actualTargets) \subseteq Range(actualTargets)
   /\ Range(prev.actualTargets) # Range(actualTargets))
  => /\ Len(engineCalls) = 1
     /\ Range(engineCalls[1]) = Range(actualTargets) \ Range(prev.actualTargets)
     /\ execError = NoError =>
          /\ ret.kind = "value"
          /\ Range(actualTargets) \subseteq DOMAIN ret.value
          /\ \A l \in Range(prev.actualTargets) : ret.value[l] = prev.ret.value[l]

\* C2 (as claimed): a request with at least one target that starts on a cache
\* with no live entry for any part of its target set invokes the engine exactly
\* once, configured with exactly its target set.
C2_ColdRequestInvokesOnce ==
  (pc \in {"exec", "done"} /\ actualTargets # <<>> /\ coldAtStart)
  => /\ Len(engineCalls) = 1
     /\ Range(engineCalls[1]) = Range(actualTargets)

\* C3: repeating the request that has just returned successfully (same content,
\* source and targets, before the entry expires, no clear in between) invokes
\* the engine zero times and returns what the first request returned.
C3_RepeatServedFromCache ==
  (/\ pc = "done"
   /\ PrevSucceeded /\ SameContent /\ Fresh
   /\ prev.actualTargets = actualTargets)
  => /\ engineCalls = <<>>
     /\ ret = prev.ret

C3_Witness ==
  /\ pc = "done"
  /\ PrevSucceeded /\ SameContent /\ Fresh
  /\ prev.actualTargets = actualTargets
  /\ prev.path = "translated"
  /\ path = "fullHit"
  /\ ret.kind = "value"
  /\ startedAt > prev.doneAt

\* C4: a request invokes the engine at most once, however many languages are
\* missing, and not at all when no language is missing.
C4_AtMostOneInvocation ==
  /\ Len(engineCalls) <= 1
  /\ (/\ pc \in {"exec", "done"}
      /\ missingLanguages = <<>> \/ Range(actualTargets) \subseteq DOMAIN existingTranslations)
     => engineCalls = <<>>

C4_Witness ==
  /\ pc = "exec"
  /\ Len(missingLanguages) = 2
  /\ NoDup(missingLanguages)
  /\ engineCalls = <<missingLanguages>>

C6_NoPublishOnFailure ==
  [][(pc = "exec" /\ pc' = "done" /\ execError' # NoError)
     => /\ memoryCache' = memoryCache
        /\ cacheFile' = cacheFile
        /\ redisStore' = redisStore
        /\ FullKey \notin DOMAIN memoryCache']_vars

C6_Witness ==
  /\ pc = "done"
  /\ execError.cause = "auth"
  /\ Len(missingLanguages) = 2
  /\ FullKey \notin DOMAIN memoryCache

\* C7 (as claimed): when the engine invocation fails at process level the caller
\* receives a result in which every missing language carries the same error marker.
C7_FailureReturnsMarkers ==
  (pc = "done" /\ execError # NoError)
  => /\ ret.kind = "value"
     /\ \A l \in Range(missingLanguages) :
          l \in DOMAIN ret.value /\ ret.value[l]._error # ""
     /\ \A l1, l2 \in Range(missingLanguages) : ret.value[l1]._error = ret.value[l2]._error

\* C8 (as claimed): after an engine invocation that succeeded, a missing
\* language whose output file is present and parseable is returned with the
\* translation in that file, and one whose file is absent or unparsable is
\* returned with an _error marker.
C8_PerLanguageIsolation ==
  (pc = "done" /\ Len(engineCalls) = 1 /\ execError = NoError)
  => /\ ret.kind = "value"
     /\ \A l \in Range(missingLanguages) :
          /\ l \in DOMAIN ret.value
          /\ i18nFiles[l].state = "json"
               => ret.value[l] = Translated(i18nFiles[l].content, i18nFiles[l].inv)
          /\ i18nFiles[l].state # "json" => ret.value[l]._error # ""

\* C9 (as claimed): when the engine invocation fails because a quota or rate
\* limit was exceeded, the languages already resolved from the cache are
\* delivered to the caller.
C9_QuotaKeepsCached ==
  (/\ pc = "done"
   /\ execError.cause = "quota"
   /\ \E l \in DOMAIN existingTranslations : existingTranslations[l]._error = "")
  => /\ ret.kind = "value"
     /\ \A l \in DOMAIN existingTranslations :
          l \in DOMAIN ret.value /\ ret.value[l] = existingTranslations[l]

\* C10: a get issued when the age of an entry exceeds the TTL returns null, as
\* for a key never written, on the in-process and on the durable backend; no
\* get ever returns an entry older than the TTL.
C10_ExpiredIsAbsent ==
  /\ lastGet.hit => lastGet.at - lastGet.entry.timestamp <= CACHE_EXPIRY_SECONDS
  /\ (/\ lastGet.at # 0
      /\ lastGet.key \in DOMAIN setAt
      /\ lastGet.at - setAt[lastGet.key] > CACHE_EXPIRY_SECONDS)
     => ~lastGet.hit /\ lastGet.entry = NoEntry

C10_Witness ==
  /\ lastGet.at # 0
  /\ lastGet.key \in DOMAIN setAt
  /\ lastGet.at - setAt[lastGet.key] > CACHE_EXPIRY_SECONDS
  /\ ~lastGet.hit

C12_SourceNeverTarget ==
  pc \in {"exec", "pending", "done"}
  => /\ \A i \in DOMAIN engineCalls : sourceLangOf(metadata) \notin Range(engineCalls[i])
     /\ \A tl \in lookups : sourceLangOf(metadata) \notin Range(tl)
     /\ engineCalls # <<>> => i18nConfig.source \notin Range(i18nConfig.targets)
     /\ Range(targetLanguages) \subseteq {sourceLangOf(metadata)}
        => /\ ret = Value(NoTranslations)
           /\ path = "noTargets"
           /\ lookups = {}
           /\ engineCalls = <<>>
           /\ entryAt = 0

\* a request naming the source language next to another language has run the
\* engine for the other language only
C12_Witness ==
  /\ pc = "done"
  /\ path = "translated"
  /\ sourceLangOf(metadata) \in Range(targetLanguages)
  /\ Len(targetLanguages) = 2
  /\ Len(engineCalls) = 1 /\ Len(engineCalls[1]) = 1
  /\ lookups = {actualTargets}

\* C13 (as claimed): once the translate call has returned or thrown, nothing it
\* staged for the engine (the source-language input, the target-set
\* configuration, the per-language output files) is left on disk.
C13_WorkspaceRemoved ==
  pc = "done"
  => /\ i18nConfig = NoConfig
     /\ \A l \in Codes : i18nFiles[l].state = "absent"

\* C14 (as claimed): once the connection to the durable backend has failed at
\* startup, or a Redis command of a get or a set has thrown, the process is
\* switched to the in-process backend, which serves every later get and set.
C14_FallbackAfterAnyFailure ==
  /\ redisClient = "created" => useInMemoryFallback
  /\ (lastGet.failed \/ \E k \in DOMAIN lastSet : lastSet[k].lost) => useInMemoryFallback

\* the same language codes, each as many times, in any order
IsPermutation(s, t) ==
  /\ Len(s) = Len(t)
  /\ \A c \in KeyCodes :
       Cardinality({i \in DOMAIN s : s[i] = c}) = Cardinality({i \in DOMAIN t : t[i] = c})

\* C15: for the same content and source language, two target lists holding the
\* same language codes in a different order get the same cache key, and
\* computing a key leaves the caller's list in the order it had.
C15_KeyIgnoresOrder ==
  /\ (/\ keyPrev.called /\ keyCall.called
      /\ keyPrev.content = keyCall.content
      /\ keyPrev.sourceLang = keyCall.sourceLang
      /\ IsPermutation(keyPrev.targetLangs, keyCall.targetLangs))
     => keyPrev.key = keyCall.key
  /\ keyCall.called => keyCall.after = keyCall.targetLangs

C15_Witness ==
  /\ keyPrev.called /\ keyCall.called
  /\ keyPrev.content = keyCall.content
  /\ keyPrev.sourceLang = keyCall.sourceLang
  /\ keyPrev.targetLangs = <<"es", "fr">>
  /\ keyCall.targetLangs = <<"fr", "es">>
  /\ keyCall.after = <<"fr", "es">>
  /\ keyPrev.key = keyCall.key

\* C16 (as claimed): with the digest taken as collision-free, two calls that
\* differ in the source language, in the set of target languages or in the
\* content get different keys.
C16_KeyInjective ==
  (/\ keyPrev.called /\ keyCall.called
   /\ \/ keyPrev.content # keyCall.content
      \/ keyPrev.sourceLang # keyCall.sourceLang
      \/ Range(keyPrev.targetLangs) # Range(keyCall.targetLangs))
  => keyPrev.key # keyCall.key

\* C17 (as claimed): getMissingLanguages(existing, requested) returns the
\* languages of requested that are not keys of existing, once per occurrence
\* and in the order of requested: all of requested when existing is empty,
\* none when existing covers requested.
C17_MissingIsDifference ==
  missCall.called
  => /\ missCall.result = SelectSeq(missCall.requested,
                                    LAMBDA lang : lang \notin DOMAIN missCall.existing)
     /\ DOMAIN missCall.existing = {} => missCall.result = missCall.requested
     /\ Range(missCall.requested) \subseteq DOMAIN missCall.existing => missCall.result = <<>>

\* the positions in subsets whose key holds a live entry with a value for lang
HitIdx(mc, subsets, body, sourceLang, lang, t) ==
  {i \in DOMAIN subsets :
     LET k == getCacheKey(body, sourceLang, subsets[i])
     IN /\ k \in DOMAIN mc
        /\ isCacheValid(mc[k], t)
        /\ lang \in DOMAIN mc[k].translations}

ValueAt(mc, subsets, body, sourceLang, lang, i) ==
  mc[getCacheKey(body, sourceLang, subsets[i])].translations[lang]

\* a step in which a request went through the partial-match loop
ResolverStep ==
  /\ requests' = requests + 1
  /\ cacheModule = "file"
  /\ actualTargets' # <<>>
  /\ path' # "fullHit"

\* C18 (as claimed): when several live sub-list entries hold the same language,
\* the accumulator holds the value of the first of them in probing order.
C18_FirstHitWins ==
  [][ResolverStep
     => \A l \in DOMAIN existingTranslations' :
          LET subsets == getLanguageSubsets(actualTargets')
              idx == HitIdx(memoryCache, subsets, metadata'.body, sourceLangOf(metadata'), l, now)
          IN /\ idx # {}
             /\ existingTranslations'[l] =
                  ValueAt(memoryCache, subsets, metadata'.body, sourceLangOf(metadata'), l,
                          CHOOSE i \in idx : \A j \in idx : i <= j)]_vars

\* C18 (amended): the accumulator holds, per language, the value of the last
\* live sub-list entry in probing order that holds the language: a later hit
\* overwrites an earlier one.
C18_LastHitWins ==
  [][ResolverStep
     => \A l \in DOMAIN existingTranslations' :
          LET subsets == getLanguageSubsets(actualTargets')
              idx == HitIdx(memoryCache, subsets, metadata'.body, sourceLangOf(metadata'), l, now)
          IN /\ idx # {}
             /\ existingTranslations'[l] =
                  ValueAt(memoryCache, subsets, metadata'.body, sourceLangOf(metadata'), l,
                          CHOOSE i \in idx : \A j \in idx : i >= j)]_vars

\* a request has just returned es as the entry of <<es, fr>> holds it, while
\* the entry of <<es>>, probed earlier, holds another value
C18_Witness ==
  /\ pc = "done"
  /\ path = "allCached"
  /\ actualTargets = <<"es", "fr", "fr">>
  /\ doneAt = now
  /\ LET k1 == getCacheKey(metadata.body, sourceLangOf(metadata), <<"es">>)
         k2 == getCacheKey(metadata.body, sourceLangOf(metadata), <<"es", "fr">>)
     IN /\ k1 \in DOMAIN memoryCache /\ isCacheValid(memoryCache[k1], now)
        /\ k2 \in DOMAIN memoryCache /\ isCacheValid(memoryCache[k2], now)
        /\ memoryCache[k1].translations["es"] # memoryCache[k2].translations["es"]
        /\ ret.value["es"] = memoryCache[k2].translations["es"]

\* C19 (as claimed): a request that resolved every target from the cache, by a
\* hit on the full key or by sub-list entries, has written its result under the
\* full key before returning: the entry there carries the time of this request.
C19_RepublishOnEveryHit ==
  (pc = "done" /\ path \in {"fullHit", "allCached"} /\ ret.kind = "value")
  => entryAt = doneAt

\* a step in which a translate request returns
ReturnStep == pc' = "done" /\ (requests' = requests + 1 \/ pc = "pending")

\* C19 (amended): a request that missed the full key and resolved every target
\* from sub-list entries writes the combined result under the full key before
\* returning; a request that hit the full key returns the entry's translations
\* and writes nothing.
C19_RepublishOnSubsetHit ==
  [][ReturnStep
     => /\ path' = "allCached"
           => /\ FullKey' \in DOMAIN memoryCache'
              /\ memoryCache'[FullKey'].translations = ret'.value
              /\ memoryCache'[FullKey'].timestamp = now
              /\ FullKey' \in DOMAIN cacheFile'
              /\ cacheFile'[FullKey'] = memoryCache'[FullKey']
              /\ Range(actualTargets') \subseteq DOMAIN ret'.value
        /\ (path' = "fullHit" /\ ret'.kind = "value")
           => /\ memoryCache' = memoryCache
              /\ cacheFile' = cacheFile
              /\ redisStore' = redisStore]_vars

\* a request has returned what sub-list entries held, and the full key now
\* holds that result with the time of the request
C19_Witness ==
  /\ pc = "done"
  /\ path = "allCached"
  /\ doneAt = now
  /\ prev.valid /\ prev.path = "translated"
  /\ prev.entryAt < doneAt
  /\ FullKey \in DOMAIN memoryCache
  /\ memoryCache[FullKey].translations = ret.value
  /\ memoryCache[FullKey].timestamp = doneAt
  /\ ret.value = prev.ret.value

\* C20 (as claimed): a process-level failure of the engine invocation is
\* reported in the class of its cause: quota or rate limit as quota exceeded,
\* connectivity as network error, rejected credentials as authentication
\* failure, anything else as unclassified (error translations are returned).
C20_FailureClassifiedByCause ==
  (pc = "done" /\ execError # NoError)
  => /\ execError.cause = "quota" => ret = Thrown(QuotaMessage)
     /\ execError.cause = "network" => ret = Thrown(NetworkMessage)
     /\ execError.cause = "auth" => ret = Thrown(InvalidKeyMessage)
     /\ execError.cause = "other" => ret.kind = "value" /\ path = "errorTranslations"

\* C21 (as claimed): every per-language output read back after an engine
\* invocation was produced by that invocation: no file of an earlier invocation
\* is picked up.
C21_OutputsOfThisInvocation ==
  (pc = "done" /\ Len(engineCalls) = 1 /\ execError = NoError /\ ret.kind = "value")
  => \A l \in Range(missingLanguages) :
       (l \in DOMAIN ret.value /\ ret.value[l]._error = "")
       => ret.value[l].inv = invocations

\* C22: with the file-backed cache module, a request that finds the cache cold
\* for its key invokes the engine itself, also when the request before it was for
\* the same key, found the same key cold and ran while this one was already in
\* progress: nothing joins a request to an earlier invocation.
C22_NotCoalesced ==
  (/\ cacheModule = "file"
   /\ pc \in {"exec", "done"}
   /\ actualTargets # <<>>
   /\ coldAtStart
   /\ path # "errorTranslations"
   /\ prev.valid /\ prev.others > 0
   /\ SameContent /\ prev.actualTargets = actualTargets
   /\ prev.coldAtStart)
  => Len(engineCalls) = 1

\* two requests for the same key were in progress together, each found the key
\* cold and each invoked the engine: two invocations for one cold key
C22_Witness ==
  /\ cacheModule = "file"
  /\ pc = "exec"
  /\ prev.valid /\ prev.others > 0
  /\ SameContent /\ prev.actualTargets = actualTargets
  /\ prev.coldAtStart /\ Len(prev.engineCalls) = 1
  /\ coldAtStart /\ Len(engineCalls) = 1
  /\ invocations = 2
  /\ ~prev.cleared /\ startedAt = prev.doneAt

\* C23 (as claimed): an engine invocation does not outlast the deadline of its
\* request: once the deadline has passed the invocation has been ended and the
\* request has returned or thrown.
C23_EngineEndedAtDeadline ==
  pc = "exec" => now - startedAt <= REQUEST_TIMEOUT

\* C24 (as claimed): for a list T of n distinct codes getLanguageSubsets(T)
\* returns 2^n - 2 = 2 * (2^(n-1) - 1) sub-lists, no two with the same set of codes, and their sets
\* of codes are exactly the non-empty proper subsets of the codes of T.
C24_EveryProperSubsetOnce ==
  subsetCall.called
  => LET T == subsetCall.languages
         R == subsetCall.result
     IN /\ Len(R) = 2 * (2 ^ (Len(T) - 1) - 1)
        /\ \A i, j \in DOMAIN R : i # j => Range(R[i]) # Range(R[j])
        /\ {Range(R[i]) : i \in DOMAIN R} = (SUBSET Range(T)) \ {{}, Range(T)}

\* C25 (as claimed): a request with at least one target other than the source
\* language that returns without throwing returns a mapping, never null, whose
\* language keys are exactly the requested targets without the source language.
C25_ResultCoversTargets ==
  (pc = "done" /\ actualTargets # <<>> /\ ret.kind # "throw")
  => /\ ret.kind = "value"
     /\ DOMAIN ret.value = Range(actualTargets)

\* C26 (as claimed): no cache entry, in the process or in the cache file, holds a
\* per-language value that carries an _error marker.
C26_NoMarkerCached ==
  /\ \A k \in DOMAIN memoryCache : \A l \in DOMAIN memoryCache[k].translations :
        memoryCache[k].translations[l]._error = ""
  /\ \A k \in DOMAIN cacheFile : \A l \in DOMAIN cacheFile[k].translations :
        cacheFile[k].translations[l]._error = ""

\* C27 (as claimed): every cache entry holds a result whose language keys are
\* exactly the languages its key was built from, and these are the
\* targetLanguages recorded in the entry.
C27_EntryCoversItsKey ==
  \A k \in DOMAIN memoryCache :
     /\ DOMAIN memoryCache[k].translations = Range(memoryCache[k].targetLanguages)
     /\ \E body \in Bodies :
          k = getCacheKey(body, sourceLangOf([lang |-> "", body |-> body]),
                          memoryCache[k].targetLanguages)

\* the time at which the engine invocation that produced a returned value came back
ProducedAt(value) == completedAt[value.inv]

\* C28 (as claimed): every translation a request returns was produced by an
\* engine invocation that came back no more than one TTL before the return; here
\* for the requests served from the cache alone, by a full hit or by partial
\* matches republished under the key of the longer list.
C28_ReturnedWithinTtl ==
  (pc = "done" /\ ret.kind = "value" /\ path \in {"fullHit", "allCached"})
  => \A l \in DOMAIN ret.value :
       ret.value[l].inv # 0 => doneAt - ProducedAt(ret.value[l]) <= CACHE_EXPIRY_SECONDS

\* C29: while a request is between staging its target configuration and source
\* file and reading back its output files, no other request starts, the
\* configuration stays as staged, and the i18n files change only in the step in
\* which this request reads them back.
C29_NoMixing ==
  [][pc = "exec"
     => /\ requests' = requests
        /\ metadata' = metadata /\ actualTargets' = actualTargets
        /\ i18nConfig' = i18nConfig
        /\ i18nFiles' # i18nFiles => pc' = "done"]_vars

\* a request has staged, run the engine and read back its files while another
\* request was in progress, which is still waiting
C29_Witness ==
  /\ pc = "done" /\ path = "translated"
  /\ others > 0 /\ waiting > 0

\* C30 (as claimed): at most one durable client is ever created, and no cache
\* operation issues its command on a client whose connection has not completed.
C30_OneClientNoEarlyCommand ==
  /\ Len(clients) <= 1
  /\ \A c \in Operations : issuedOn[c] \in {"nothing", "memory", "ready"}

====
